---- MODULE Spec2Model ----
(***************************************************************************)
(* AutoCleanUp (ACU): the per-thread cleanup stack, the unique/shared      *)
(* smart pointers and the scope brackets of exceptions-and-raii-in-c.      *)
(*                                                                         *)
(* Memory is modelled as two arrays of cells (unique nodes, shared nodes). *)
(* free() only clears a cell's `live' flag: the bytes stay where they are  *)
(* until calloc hands the address out again, and calloc may hand out any   *)
(* free address.  A pointer to a freed cell therefore either still sees    *)
(* the old bytes or aliases a newer object; every access through such a    *)
(* pointer also raises the flag `ub'.  Dereferencing NULL, or a loop that  *)
(* does not end, raises `fault' as well: the process goes no further.      *)
(***************************************************************************)
EXTENDS Integers, Sequences, FiniteSets, TLC

\* ---------------------------------------------------------------- bounds
MaxNodes  == 5      \* addresses calloc has for the acu_unique cells of one thread
MaxShared == 1      \* addresses available for acu_shared cells
MaxRes    == 3      \* resources the program constructs in one run
MaxDepth  == 2      \* deepest nesting of open scopes
MaxLog    == 4      \* release calls recorded in one run
MaxFuel   == 12     \* loop iterations / destructor calls inside one operation
MaxRefs   == 2      \* new_strong and new_weak calls counted per shared object
MaxLocked == 1      \* pointers from acu_lock_reference held at one time
MaxAfter  == 4      \* operations the process is followed through after undefined behaviour
MaxThreads == 2     \* threads of the process

\* ------------------------------------------------------ program constants
NULL == 0
_ACU_TRANSFERRABLE == 1
_ACU_SHAREABLE == 2
_ACU_SUBMITTABLE == 4
AllProperties == _ACU_TRANSFERRABLE + _ACU_SHAREABLE + _ACU_SUBMITTABLE

\* Every thread allocates from an arena of its own
MaxCells  == MaxNodes * MaxThreads
NodeIds   == 1..MaxCells
Threads   == 1..MaxThreads
Arena(t)  == ((t - 1) * MaxNodes + 1)..(t * MaxNodes)
SharedIds == 1..MaxShared

\* The destructor functions a base record can point to.
DelNone   == "NULL"
DelFree   == "free"                   \* a resource's own release function
DelStrong == "_acu_del_strong_ref"
DelWeak   == "_acu_del_weak_ref"
DelUnlock == "pthread_mutex_unlock"

VARIABLES
    nodes,          \* memory of struct _acu_stack_node cells
    shared,         \* memory of struct _acu_shared_node cells
    _acu_stack_ptr, \* top of the main stack
    _acu_latest,    \* latest unique node, or NULL
    _acu_scope,     \* current scope level
    frames,         \* the open brackets of the running program, outermost first
    handles,        \* unique nodes the program holds a pointer to
    locked,         \* pointers acu_lock_reference returned that the caller has not released
    nextRes,        \* next resource handle to construct
    log,            \* resource handles in the order their release function ran
    ub,             \* some operation accessed freed memory or dereferenced NULL
    fault,          \* the process was stopped by a NULL dereference or hangs in a loop
    after,          \* operations begun since the first undefined behaviour
    exited,         \* the process has exited
    owner,          \* per resource: the depth of the open bracket whose end is to release it
    yielded,        \* the resources passed to an enclosing scope by acu_yield
    bypassed,       \* the resources registered in a scope that was left past its closing bracket
    made,           \* per shared cell: references created so far, and whether refcnt has been 0
    last,           \* the last operation: its name, argument and what it is expected to release
    tid,            \* the running thread: the thread-local variables above are its own
    parked,         \* per thread that is not running: its thread-local variables
    pc              \* where the running thread is inside a library call of the thread-safe build

vars == <<nodes, shared, _acu_stack_ptr, _acu_latest, _acu_scope, frames, handles, locked,
          nextRes, log, ub, fault, after, exited, owner, yielded, bypassed, made, last,
          tid, parked, pc>>

\* struct _acu_stack_node after calloc
ZeroNode == [live |-> FALSE, ptr |-> NULL, del |-> DelNone, prev |-> NULL, next |-> NULL,
             scope |-> 0, properties |-> 0]

\* struct _acu_shared_node after calloc
ZeroShared == [live |-> FALSE, ptr |-> NULL, del |-> DelNone, tail |-> NULL,
               refcnt |-> 0, weakcnt |-> 0, shared |-> 0]

\* A thread outside every library call
Idle == [op |-> "idle", u |-> NULL, s |-> NULL, fn |-> NULL, lockptr |-> NULL, b |-> NULL,
         old |-> 0, level |-> 0]

\* The thread-local variables of a thread that has not run yet
ZeroThread == [sp |-> NULL, latest |-> NULL, scope |-> 0, frames |-> <<>>, handles |-> {},
               pc |-> Idle]

\* ------------------------------------------------------------------------
\* The machine state the library functions transform.  `freed' collects the
\* cells freed during the running operation, `fuel' bounds its loops.
\* ------------------------------------------------------------------------
Machine == [nodes |-> nodes, shared |-> shared, sp |-> _acu_stack_ptr,
            latest |-> _acu_latest, scope |-> _acu_scope, log |-> log, ub |-> ub, fault |-> fault,
            freed |-> {}, fuel |-> MaxFuel, thrown |-> FALSE]

\* C's bitwise & on the three property bits
BitAnd(a, b) ==
    (IF (a % 2 = 1) /\ (b % 2 = 1) THEN 1 ELSE 0)
  + (IF ((a \div 2) % 2 = 1) /\ ((b \div 2) % 2 = 1) THEN 2 ELSE 0)
  + (IF ((a \div 4) % 2 = 1) /\ ((b \div 4) % 2 = 1) THEN 4 ELSE 0)

\* C's comparison result
BoolInt(b) == IF b THEN 1 ELSE 0

\* Reading or writing *u: undefined when u is NULL or freed.
Fault(m) == [m EXCEPT !.ub = TRUE, !.fault = TRUE]

TouchNode(m, u) ==
    IF u \notin NodeIds THEN Fault(m)
    ELSE IF m.nodes[u].live THEN m ELSE [m EXCEPT !.ub = TRUE]

TouchShared(m, s) ==
    IF s \notin SharedIds THEN Fault(m)
    ELSE IF m.shared[s].live THEN m ELSE [m EXCEPT !.ub = TRUE]

SetPrev(m, u, v) ==
    IF u \in NodeIds THEN [TouchNode(m, u) EXCEPT !.nodes[u].prev = v] ELSE TouchNode(m, u)

SetNext(m, u, v) ==
    IF u \in NodeIds THEN [TouchNode(m, u) EXCEPT !.nodes[u].next = v] ELSE TouchNode(m, u)

\* free(u)
FreeNode(m, u) ==
    [TouchNode(m, u) EXCEPT !.nodes[u].live = FALSE, !.freed = @ \cup {u}]

\* free(s)
FreeShared(m, s) == [TouchShared(m, s) EXCEPT !.shared[s].live = FALSE]

\* A pointer to a pointer to a unique node: &_acu_stack_ptr, &(s->tail) or &(u->prev).
MainRef == [k |-> "sp", id |-> 0]

TailRef(s) == [k |-> "tail", id |-> s]

PrevRef(u) == [k |-> "prev", id |-> u]

\* *ref
Deref(m, ref) ==
    CASE ref.k = "sp"   -> m.sp
      [] ref.k = "tail" -> m.shared[ref.id].tail
      [] ref.k = "prev" -> m.nodes[ref.id].prev

\* *ref = v
Assign(m, ref, v) ==
    CASE ref.k = "sp"   -> [m EXCEPT !.sp = v]
      [] ref.k = "tail" -> [TouchShared(m, ref.id) EXCEPT !.shared[ref.id].tail = v]
      [] ref.k = "prev" -> SetPrev(m, ref.id, v)

\* the access *ref itself
TouchRef(m, ref) ==
    CASE ref.k = "sp"   -> m
      [] ref.k = "tail" -> TouchShared(m, ref.id)
      [] ref.k = "prev" -> TouchNode(m, ref.id)

RECURSIVE CleanupLoop(_, _, _, _, _, _)
RECURSIVE _acu_del_strong_ref(_, _)

\* Destructor for a unique pointer with a weak reference to a shared pointer
_acu_del_weak_ref(m, s) ==
    LET m1 == [TouchShared(m, s) EXCEPT !.shared[s].weakcnt = @ - 1]
    IN  IF m1.shared[s].weakcnt = 0 THEN FreeShared(m1, s) ELSE m1

\* (del)(ptr): run a base record's destructor function
CallDel(m, del, ptr) ==
    CASE del = DelNone   -> m
      [] del = DelFree   -> [m EXCEPT !.log = Append(@, ptr)]
      [] del = DelWeak   -> IF ptr \in SharedIds THEN _acu_del_weak_ref(m, ptr)
                            ELSE Fault(m)
      [] del = DelStrong -> IF ptr \in SharedIds THEN _acu_del_strong_ref(m, ptr)
                            ELSE Fault(m)
      [] del = DelUnlock -> IF ptr \in SharedIds THEN [TouchShared(m, ptr) EXCEPT !.ub = TRUE]
                            ELSE Fault(m)

\* if (u->base.del) (u->base.del)(u->base.ptr)
DelNode(m, u) == CallDel(TouchNode(m, u), m.nodes[u].del, m.nodes[u].ptr)

\* Seeded fault: the node below keeps its link to the destructed node.
PrevStaysLinked(m, u) == m

\* if (u->prev) u->prev->next = u->next
UnlinkPrev(m, u) ==
    IF m.nodes[u].prev # NULL THEN SetNext(m, m.nodes[u].prev, m.nodes[u].next) ELSE m

\* if (u->next) u->next->prev = u->prev
UnlinkNext(m, u) ==
    IF m.nodes[u].next # NULL THEN SetPrev(m, m.nodes[u].next, m.nodes[u].prev) ELSE m

\* Seeded fault: the node is unlinked and freed, its destructor is not called.
DestructWithoutRelease(m, u) == FreeNode(UnlinkNext(UnlinkPrev(TouchNode(m, u), u), u), u)

\* Destruct a unique node without updating stack pointers.
_acu_destruct(m, u) == FreeNode(UnlinkNext(UnlinkPrev(DelNode(m, u), u), u), u)

\* Seeded fault: the loop destructs only the nodes one level above minscope.
RECURSIVE CleanupLoopOneLevel(_, _, _, _, _, _)
CleanupLoopOneLevel(m, u, n, stack_ptr_ref, next, minscope) ==
    LET m0 == TouchRef(m, n)
        cur == Deref(m0, n)
    IN  IF cur = u THEN m0
        ELSE IF cur = NULL \/ m0.fuel = 0 THEN Fault(m0)
        ELSE LET m1 == [TouchNode(m0, cur) EXCEPT !.fuel = @ - 1]
             IN  IF m1.nodes[cur].scope = minscope + 1
                 THEN CleanupLoopOneLevel(
                          _acu_destruct(Assign(m1, n, m1.nodes[cur].prev), cur),
                          u, n, stack_ptr_ref, next, minscope)
                 ELSE CleanupLoopOneLevel(
                          IF n = stack_ptr_ref THEN SetNext(m1, cur, next) ELSE m1,
                          u, PrevRef(cur), stack_ptr_ref, cur, minscope)

\* The loop of _acu_cleanup: n walks from stack_ptr_ref down the prev links until
\* *n = u, destructing the nodes whose scope is above minscope.
CleanupLoop(m, u, n, stack_ptr_ref, next, minscope) ==
    LET m0 == TouchRef(m, n)
        cur == Deref(m0, n)
    IN  IF cur = u THEN m0
        ELSE IF cur = NULL \/ m0.fuel = 0 THEN Fault(m0)
        ELSE LET m1 == [TouchNode(m0, cur) EXCEPT !.fuel = @ - 1]
             IN  IF m1.nodes[cur].scope > minscope
                 THEN CleanupLoop(_acu_destruct(Assign(m1, n, m1.nodes[cur].prev), cur),
                                  u, n, stack_ptr_ref, next, minscope)
                 ELSE CleanupLoop(IF n = stack_ptr_ref THEN SetNext(m1, cur, next) ELSE m1,
                                  u, PrevRef(cur), stack_ptr_ref, cur, minscope)

\* Pop and destruct all unique nodes in a stack until node u (inclusive), or all
\* nodes if u = NULL, leaving the nodes whose scope is not above minscope.
_acu_cleanup(m, u, stack_ptr_ref, minscope) ==
    CleanupLoop(IF u # NULL THEN TouchNode(m, u) ELSE m,
                IF u # NULL THEN m.nodes[u].prev ELSE NULL,
                stack_ptr_ref, stack_ptr_ref, NULL, minscope)

\* if (s->base.del) (s->base.del)(s->base.ptr)
DelBase(m, s) == CallDel(m, m.shared[s].del, m.shared[s].ptr)

\* Destructor for a unique node with a strong reference to a shared node
_acu_del_strong_ref(m, s) ==
    LET m1 == [TouchShared(m, s) EXCEPT !.shared[s].refcnt = @ - 1]
    IN  IF m1.shared[s].refcnt = 0
        THEN _acu_del_weak_ref(DelBase(_acu_cleanup(m1, NULL, TailRef(s), 0), s), s)
        ELSE m1

\* Seeded fault: the new node does not record the current scope level.
NewUniqueUnscoped(m, a, ptr, del, stack_ptr_ref) ==
    LET m1 == [m EXCEPT !.nodes[a] = [ZeroNode EXCEPT !.live = TRUE, !.ptr = ptr,
                                      !.del = del, !.prev = m.sp]]
        top == Deref(m1, stack_ptr_ref)
        m2 == IF top # NULL THEN SetNext(m1, top, a) ELSE m1
        m3 == Assign(m2, stack_ptr_ref, a)
    IN  [m3 EXCEPT !.nodes[a].properties = AllProperties]

\* Create a new unique node at address a (the cell calloc returned) and push it
\* to the stack *stack_ptr_ref.
_acu_new_unique(m, a, ptr, del, stack_ptr_ref) ==
    LET m1 == [m EXCEPT !.nodes[a] = [ZeroNode EXCEPT !.live = TRUE, !.ptr = ptr,
                                      !.del = del, !.prev = m.sp]]
        top == Deref(m1, stack_ptr_ref)
        m2 == IF top # NULL THEN SetNext(m1, top, a) ELSE m1
        m3 == Assign(m2, stack_ptr_ref, a)
    IN  [m3 EXCEPT !.nodes[a].scope = m.scope, !.nodes[a].properties = AllProperties]

\* if (*stack_ptr_ref) (*stack_ptr_ref)->next = u
LinkTop(m, top, a) == IF top # NULL THEN SetNext(m, top, a) ELSE m

\* _acu_new_unique up to the link from the old top: the node is allocated and filled
\* in, the stack pointer is not written yet
PushLink(m, a, ptr, del, stack_ptr_ref) ==
    LinkTop([m EXCEPT !.nodes[a] = [ZeroNode EXCEPT !.live = TRUE, !.ptr = ptr,
                                    !.del = del, !.prev = m.sp]],
            Deref(m, stack_ptr_ref), a)

\* the rest of _acu_new_unique: *stack_ptr_ref = u, scope and properties
PushTop(m, a, stack_ptr_ref) ==
    [Assign(TouchNode(m, a), stack_ptr_ref, a)
        EXCEPT !.nodes[a].scope = m.scope, !.nodes[a].properties = AllProperties]

\* Create a new unique node in the main stack
acu_new_unique(m, a, ptr, del) ==
    [_acu_new_unique(m, a, ptr, del, MainRef) EXCEPT !.latest = a]

\* Create an empty unique node
acu_reserve(m, a) == acu_new_unique(m, a, NULL, DelNone)

\* ------------------------------------------------------------------------
\* The scope brackets.  A bracket opens a scope one level above the current
\* one and closes it by cleaning the main stack down to its marker node.
\* ------------------------------------------------------------------------

\* enter_scope: scope_level is incremented on entering a scope
EnterLevel(m) == [m EXCEPT !.scope = @ + 1]

\* leave_scope: the level preserved by the drain of a scope opened at `level'
\* is the enclosing one, which is also the level current after leaving
LeaveLevel(level) == level - 1

\* BEGIN
BEGIN(m, a) == [acu_reserve(EnterLevel(m), a) EXCEPT !.latest = NULL]

\* BEGIN_SCOPE (and the scope part of TRY)
BEGIN_SCOPE(m, a) == acu_reserve(EnterLevel(m), a)

\* END_SCOPE, END (and the scope part of TRY_END)
END_SCOPE(m, marker, level) ==
    [_acu_cleanup(m, marker, MainRef, LeaveLevel(level)) EXCEPT !.scope = LeaveLevel(level)]

\* the cleanup run by atexit()
_acu_atexit_cleanup(m) == _acu_cleanup(m, NULL, MainRef, 0)

\* acu_exit(v): full cleanup, then exit(v), which runs the atexit cleanup
acu_exit(m) == _acu_atexit_cleanup(_acu_cleanup(m, NULL, MainRef, 0))

\* Seeded fault: the scope level of the node is left as it is.
YieldNothing(m, u) ==
    IF BitAnd(m.nodes[u].properties, BoolInt(_ACU_TRANSFERRABLE = 0)) # 0
    THEN [m EXCEPT !.thrown = TRUE]
    ELSE TouchNode(m, u)

\* Pass unique pointer to the enclosing dynamic scope
acu_yield(m, u) ==
    IF BitAnd(m.nodes[u].properties, BoolInt(_ACU_TRANSFERRABLE = 0)) # 0
    THEN [m EXCEPT !.thrown = TRUE]
    ELSE IF m.nodes[u].scope > m.scope - 1
         THEN [TouchNode(m, u) EXCEPT !.nodes[u].scope = m.scope - 1]
         ELSE TouchNode(m, u)

\* Get pointer to the latest unique node in the main stack, and clear the register
acu_latest(m) ==
    IF m.latest = NULL
    THEN [m |-> [m EXCEPT !.thrown = TRUE], ret |-> NULL]
    ELSE [m |-> [m EXCEPT !.latest = NULL], ret |-> m.latest]

\* Seeded fault: the stack pointer is left on the destructed node.
DestructKeepsTop(m, u) == _acu_destruct([TouchNode(m, u) EXCEPT !.latest = NULL], u)

\* Destruct unique node u in the main stack
acu_destruct(m, u) ==
    LET m1 == [TouchNode(m, u) EXCEPT !.latest = NULL]
        m2 == IF u = m1.sp THEN [m1 EXCEPT !.sp = m1.nodes[u].prev] ELSE m1
    IN  _acu_destruct(m2, u)

\* Seeded fault: the new handle is stored in the entry itself, forward link or not.
UpdateEntryOnly(m, u, newptr) ==
    IF m.nodes[u].del = DelWeak
    THEN [TouchNode(m, u) EXCEPT !.thrown = TRUE]
    ELSE [TouchNode(m, u) EXCEPT !.nodes[u].ptr = newptr]

\* Seeded fault: a weak link is followed like a strong one.
UpdateThroughWeak(m, u, newptr) ==
    IF m.nodes[u].del \in {DelStrong, DelWeak} /\ m.nodes[u].ptr \in SharedIds
    THEN [TouchShared(TouchNode(m, u), m.nodes[u].ptr)
             EXCEPT !.shared[m.nodes[u].ptr].ptr = newptr]
    ELSE [TouchNode(m, u) EXCEPT !.nodes[u].ptr = newptr]

\* Update pointer to the base object, follow the forward link first
acu_update(m, u, newptr) ==
    IF m.nodes[u].del = DelWeak
    THEN [TouchNode(m, u) EXCEPT !.thrown = TRUE]
    ELSE IF m.nodes[u].del = DelStrong
         THEN LET s == m.nodes[u].ptr
                  m0 == TouchShared(TouchNode(m, u), s)
              IN  IF s \in SharedIds THEN [m0 EXCEPT !.shared[s].ptr = newptr] ELSE m0
         ELSE [TouchNode(m, u) EXCEPT !.nodes[u].ptr = newptr]

\* Seeded fault: the capability flags stay behind.
TransferWithoutFlags(m, from, to) ==
    LET m0 == TouchNode(TouchNode(m, from), to)
        m1 == [m0 EXCEPT !.nodes[to].ptr = m0.nodes[from].ptr,
                         !.nodes[to].del = m0.nodes[from].del]
        m2 == [m1 EXCEPT !.nodes[from].del = DelNone]
    IN  acu_destruct(m2, from)

\* Assign unique object reference from `from' to `to'
acu_transfer(m, from, to) ==
    IF BitAnd(m.nodes[from].properties, BoolInt(_ACU_TRANSFERRABLE = 0)) # 0
    THEN [m EXCEPT !.thrown = TRUE]
    ELSE LET m0 == TouchNode(TouchNode(m, from), to)
             m1 == [m0 EXCEPT !.nodes[to].ptr = m0.nodes[from].ptr,
                              !.nodes[to].del = m0.nodes[from].del,
                              !.nodes[to].properties = m0.nodes[from].properties]
             m2 == [m1 EXCEPT !.nodes[from].del = DelNone]
         IN  acu_destruct(m2, from)

\* Seeded fault: the capability flags are not exchanged.
SwapWithoutFlags(m, a, b) ==
    LET m0 == TouchNode(TouchNode(m, a), b)
    IN  [m0 EXCEPT !.nodes[a].ptr = m0.nodes[b].ptr,
                   !.nodes[a].del = m0.nodes[b].del,
                   !.nodes[b].ptr = m0.nodes[a].ptr,
                   !.nodes[b].del = m0.nodes[a].del]

\* Swap the contents of two unique pointers
acu_swap(m, a, b) ==
    IF BitAnd(BitAnd(m.nodes[a].properties, m.nodes[b].properties),
              BoolInt(_ACU_TRANSFERRABLE = 0)) # 0
    THEN [m EXCEPT !.thrown = TRUE]
    ELSE LET m0 == TouchNode(TouchNode(m, a), b)
         IN  [m0 EXCEPT !.nodes[a].ptr = m0.nodes[b].ptr,
                        !.nodes[a].del = m0.nodes[b].del,
                        !.nodes[b].ptr = m0.nodes[a].ptr,
                        !.nodes[b].del = m0.nodes[a].del,
                        !.nodes[a].properties = m0.nodes[b].properties,
                        !.nodes[b].properties = m0.nodes[a].properties]

\* Seeded fault: the weak count of the new shared node is left at zero.
ShareWithoutWeakCount(m, u, sa) ==
    [TouchNode(m, u) EXCEPT !.shared[sa] = [ZeroShared EXCEPT !.live = TRUE,
                                              !.ptr = m.nodes[u].ptr, !.del = m.nodes[u].del,
                                              !.refcnt = 1],
                            !.nodes[u].ptr = sa,
                            !.nodes[u].del = DelStrong]

\* Create a shared pointer at address sa pointing to the object unique pointer u
\* points to, and turn u into a forward reference to it.
acu_share(m, u, sa) ==
    IF BitAnd(m.nodes[u].properties, BoolInt(_ACU_SHAREABLE = 0)) # 0
    THEN [m EXCEPT !.thrown = TRUE]
    ELSE LET m0 == TouchNode(m, u)
         IN  [m0 EXCEPT !.shared[sa] = [ZeroShared EXCEPT !.live = TRUE,
                                           !.ptr = m0.nodes[u].ptr, !.del = m0.nodes[u].del,
                                           !.refcnt = 1, !.weakcnt = 1],
                        !.nodes[u].ptr = sa,
                        !.nodes[u].del = DelStrong]

\* Seeded fault: the new strong reference is not counted.
NewReferenceUncounted(m, a, s) == TouchShared(acu_new_unique(m, a, s, DelStrong), s)

\* Create new unique node in the main stack, pointing to shared node s
acu_new_reference(m, a, s) ==
    LET m1 == TouchShared(acu_new_unique(m, a, s, DelStrong), s)
        m2 == IF m1.shared[s].refcnt = 0 THEN [m1 EXCEPT !.shared[s].weakcnt = @ + 1] ELSE m1
    IN  [m2 EXCEPT !.shared[s].refcnt = @ + 1]

\* Create new unique node with a weak reference to shared pointer s
acu_new_weak_reference(m, a, s) ==
    LET m1 == TouchShared(acu_new_unique(m, a, s, DelWeak), s)
    IN  [m1 EXCEPT !.nodes[a].properties =
                       BitAnd(@, AllProperties - _ACU_SUBMITTABLE - _ACU_SHAREABLE),
                   !.shared[s].weakcnt = @ + 1]

\* ------------------------------------------------------------------------
\* The thread-safe build (ACU_THREAD_SAFE): the steps of the reference
\* operations between which another thread can run.
\* ------------------------------------------------------------------------

\* Seeded fault: an increment that finds the count at 2 is lost.
FetchAndAddLost(m, s, field, d) ==
    [TouchShared(m, s) EXCEPT !.shared[s][field] = IF d > 0 /\ @ = 2 THEN @ ELSE @ + d]

\* __sync_fetch_and_add(&(s->field), d), __sync_sub_and_fetch(&(s->field), -d)
__sync_fetch_and_add(m, s, field, d) ==
    [TouchShared(m, s) EXCEPT !.shared[s][field] = @ + d]

\* s->shared = 1
MarkShared(m, s) == [TouchShared(m, s) EXCEPT !.shared[s].shared = 1]

\* acu_new_reference before the counts: the node, and the mark on s
NewReferenceNode(m, a, s) == MarkShared(acu_new_unique(m, a, s, DelStrong), s)

\* __sync_fetch_and_add(&(s->refcnt), 1), and the value it returns
NewReferenceAdd(m, s) ==
    [m |-> __sync_fetch_and_add(m, s, "refcnt", 1), old |-> m.shared[s].refcnt]

\* acu_new_weak_reference before the count: the node, its properties, the mark on s
NewWeakNode(m, a, s) ==
    MarkShared([acu_new_unique(m, a, s, DelWeak) EXCEPT !.nodes[a].properties =
                   BitAnd(@, AllProperties - _ACU_SUBMITTABLE - _ACU_SHAREABLE)], s)

\* acu_destruct up to the call of the destructor
DestructEnter(m, u) ==
    IF u = m.sp THEN [TouchNode(m, u) EXCEPT !.latest = NULL, !.sp = m.nodes[u].prev]
    ELSE [TouchNode(m, u) EXCEPT !.latest = NULL]

\* _acu_destruct after the call of the destructor: unlink the node and free it
UnlinkFree(m, u) == FreeNode(UnlinkNext(UnlinkPrev(m, u), u), u)

\* _acu_del_strong_ref on reaching zero: drain the private stack, release the base
DrainShared(m, s) == DelBase(_acu_cleanup(m, NULL, TailRef(s), 0), s)

\* acu_pthread_mutex_lock(&(s->lock)): the call of pthread_mutex_lock is commented
\* out, the unlock is registered on the main stack
acu_pthread_mutex_lock(m, a, s) == acu_new_unique(m, a, s, DelUnlock)

\* acu_submit_to up to the push: BEGIN, the capability test, the mutex
SubmitEnter(m, u, s, a1, a2) ==
    IF BitAnd(m.nodes[u].properties, BoolInt(_ACU_SUBMITTABLE = 0)) # 0
    THEN [BEGIN(m, a1) EXCEPT !.thrown = TRUE]
    ELSE IF m.shared[s].shared # 0
         THEN acu_pthread_mutex_lock(TouchShared(BEGIN(m, a1), s), a2, s)
         ELSE TouchShared(BEGIN(m, a1), s)

\* if (s->shared) acu_destruct(lockptr)
SubmitUnlock(m, s, lockptr) ==
    IF m.shared[s].shared = 0 THEN TouchShared(m, s)
    ELSE IF lockptr \in NodeIds THEN acu_destruct(TouchShared(m, s), lockptr)
    ELSE Fault(m)

\* acu_submit_to after the push: take u out of the main stack and free it
SubmitUnlink(m, u) ==
    FreeNode([(IF m.nodes[u].next # NULL
               THEN SetPrev(UnlinkPrev(TouchNode(m, u), u), m.nodes[u].next, m.nodes[u].prev)
               ELSE [UnlinkPrev(TouchNode(m, u), u) EXCEPT !.sp = m.nodes[u].prev])
                 EXCEPT !.latest = NULL], u)

\* acu_return: clean up the function scope opened at `level' with marker fn, then return
acu_return(m, fn, level) == END_SCOPE(m, fn, level)

\* Seeded fault: the count incremented by the test is not put back to zero.
LockExpiredKeepsCount(m, s, fn, level) == acu_return(m, fn, level)

\* acu_lock_reference found the object expired: s->refcnt = 0; acu_return NULL
LockExpired(m, s, fn, level) == acu_return([m EXCEPT !.shared[s].refcnt = 0], fn, level)

\* acu_lock_reference found the object alive: TRY u = acu_new_unique(s, ...) TRY_END,
\* then the properties, acu_yield(u) and acu_return u
LockTake(m, s, fn, level, a2, a3) ==
    LET t0 == BEGIN_SCOPE(m, a2)
        t1 == acu_new_unique(t0, a3, s, DelStrong)
        t2 == END_SCOPE(t1, a2, t0.scope)
        t3 == [TouchNode(t2, a3) EXCEPT !.nodes[a3].properties =
                  BitAnd(@, AllProperties - _ACU_SUBMITTABLE - _ACU_SHAREABLE)]
        t4 == acu_yield(t3, a3)
    IN  acu_return(t4, fn, level)

\* acu_lock_reference up to the test: BEGIN and the increment of refcnt
LockEnter(m, weakptr, a1) ==
    __sync_fetch_and_add(TouchNode(BEGIN(m, a1), weakptr), m.nodes[weakptr].ptr, "refcnt", 1)

\* Create a strong reference copy of a weak reference.  a1, a2 and a3 are the cells
\* calloc returns for the markers of BEGIN and TRY and for the new node.  The result
\* is the machine state and the pointer returned.
acu_lock_reference(m, weakptr, a1, a2, a3) ==
    LET b  == BEGIN(m, a1)
        fn == b.scope
    IN  IF weakptr = NULL \/ b.nodes[weakptr].del # DelWeak
        THEN [m |-> [b EXCEPT !.thrown = TRUE], ret |-> NULL]
        ELSE LET s  == b.nodes[weakptr].ptr
                 b0 == TouchShared(TouchNode(b, weakptr), s)
                 b1 == [b0 EXCEPT !.shared[s].refcnt = @ + 1]
             IN  IF b0.shared[s].refcnt = 0
                 THEN [m |-> LockExpired(b1, s, a1, fn), ret |-> NULL]
                 ELSE [m |-> LockTake(b1, s, a1, fn, a2, a3), ret |-> a3]

\* Detach unique node u from the main stack and push a copy of it to the stack of
\* shared object s.  a1 and a2 are the cells calloc returns for the marker of BEGIN
\* and for the copy.
acu_submit_to(m, u, s, a1, a2) ==
    LET b  == BEGIN(m, a1)
        fn == b.scope
    IN  IF BitAnd(b.nodes[u].properties, BoolInt(_ACU_SUBMITTABLE = 0)) # 0
        THEN [b EXCEPT !.thrown = TRUE]
        ELSE LET b0 == TouchShared(TouchNode(b, u), s)
                 b1 == _acu_new_unique(b0, a2, b0.nodes[u].ptr, b0.nodes[u].del, TailRef(s))
                 b2 == IF b1.nodes[u].prev # NULL
                       THEN SetNext(b1, b1.nodes[u].prev, b1.nodes[u].next) ELSE b1
                 b3 == IF b2.nodes[u].next # NULL
                       THEN SetPrev(b2, b2.nodes[u].next, b2.nodes[u].prev)
                       ELSE [b2 EXCEPT !.sp = b2.nodes[u].prev]
                 b4 == FreeNode([b3 EXCEPT !.latest = NULL], u)
             IN  END_SCOPE(b4, a1, fn)

\* ------------------------------------------------------------------------
\* Allocation failure: calloc returns NULL for a bookkeeping record.
\* ------------------------------------------------------------------------

\* calloc_t when calloc returns NULL: throw(new_mem_exception("calloc", n * s)),
\* or throw(&_exc_sys_nomem_g) when the exception cannot be allocated either
calloc_t(m) == [m EXCEPT !.thrown = TRUE]

\* acu_share when calloc returns NULL for the shared node
ShareNoMemory(m, u) ==
    IF BitAnd(m.nodes[u].properties, BoolInt(_ACU_SHAREABLE = 0)) # 0
    THEN [m EXCEPT !.thrown = TRUE]
    ELSE calloc_t(TouchNode(m, u))

\* acu_submit_to when the k-th calloc of the call returns NULL: for the marker of
\* BEGIN (k = 1) or for the copy (k = 2).  a1 is the cell of the marker.
SubmitNoMemory(m, u, s, a1, k) ==
    IF k = 1 THEN calloc_t(EnterLevel(m))
    ELSE LET b == BEGIN(m, a1)
         IN  IF BitAnd(b.nodes[u].properties, BoolInt(_ACU_SUBMITTABLE = 0)) # 0
             THEN [b EXCEPT !.thrown = TRUE]
             ELSE calloc_t(TouchShared(TouchNode(b, u), s))

\* acu_lock_reference on a weak reference to an object with strong references when
\* the k-th calloc of the call returns NULL: for the marker of BEGIN (k = 1), for the
\* marker of TRY (k = 2) or for the new node (k = 3).  The acu_reserve of TRY runs
\* before _exc_context is set to the context of this TRY, so its throw goes to the
\* caller; the throw of acu_new_unique goes to the CATCH block, which decrements
\* refcnt and rethrows.
LockNoMemory(m, weakptr, a1, a2, k) ==
    IF k = 1 THEN calloc_t(EnterLevel(m))
    ELSE LET b  == BEGIN(m, a1)
             s  == b.nodes[weakptr].ptr
             b0 == TouchShared(TouchNode(b, weakptr), s)
             b1 == [b0 EXCEPT !.shared[s].refcnt = @ + 1]
         IN  IF k = 2 THEN calloc_t(EnterLevel(b1))
             ELSE [calloc_t(BEGIN_SCOPE(b1, a2)) EXCEPT !.shared[s].refcnt = @ - 1]

\* ------------------------------------------------------------------------
\* The running program: what it holds and which brackets it has open.
\* ------------------------------------------------------------------------
Resources == 1..MaxRes

Unregistered == [st |-> "unregistered", d |-> 0]

Released == [st |-> "released", d |-> 0]

Shared == [st |-> "shared", d |-> 0]

\* No entry holds the resource any more, and it was not released
Overwritten == [st |-> "overwritten", d |-> 0]

\* Owned by the bracket at depth d (0: outside every bracket)
HeldAt(d) == [st |-> "held", d |-> d]

Held(ow, r) == ow[r].st = "held"

\* Owned by the bracket at depth d or by one inside it
HeldFrom(ow, r, d) == Held(ow, r) /\ ow[r].d >= d

NoRefs == [strong |-> 0, weak |-> 0, zero |-> FALSE, subs |-> <<>>]

Depth == Len(frames)

Top == frames[Depth]

\* The cells some pointer of `from' leads to, directly or through freed cells
\* that still hold their old bytes.
RECURSIVE Reach(_, _)
Reach(mem, from) ==
    LET more == from \cup {mem[a].prev : a \in from} \cup {mem[a].next : a \in from}
        cells == more \cap NodeIds
    IN  IF cells = from THEN from ELSE Reach(mem, cells)

\* Every cell a pointer held by the library or by the program can lead to.
Referenced(m, held, fr) ==
    Reach(m.nodes,
          ({m.sp, m.latest} \cup held \cup {fr[i].marker : i \in 1..Len(fr)}
             \cup {m.shared[s].tail : s \in SharedIds}
             \cup {a \in NodeIds : m.nodes[a].live}) \cap NodeIds)

\* The unique nodes a thread inside a library call has in its local variables
PcPtrs(p) == {p.u, p.fn, p.lockptr, p.b} \cap NodeIds

\* The unique nodes the threads that are not running have pointers to
ParkedPtrs ==
    UNION {({parked[t].sp, parked[t].latest} \cup parked[t].handles \cup PcPtrs(parked[t].pc)
              \cup {parked[t].frames[i].marker : i \in 1..Len(parked[t].frames)}) \cap NodeIds :
           t \in Threads}

\* The addresses calloc can return for a unique node: a freed cell something still
\* points to, or a cell nothing points to (these are all alike: the lowest stands
\* for them).
AllocCells(m) ==
    LET free == {a \in Arena(tid) : ~m.nodes[a].live}
        ref  == Referenced(m, handles \cup locked \cup ParkedPtrs \cup PcPtrs(pc), frames)
        rest == free \ ref
    IN  (free \cap ref) \cup {a \in rest : \A b \in rest : a <= b}

FreeCells == AllocCells(Machine)

\* The shared cells some unique cell within reach refers to
SharedReferenced(m, cells) ==
    {m.nodes[a].ptr : a \in {b \in cells : m.nodes[b].del \in {DelStrong, DelWeak}}}

\* Freed cells no pointer leads to any more hold nothing the program can observe.
Forget(m, held, fr) ==
    LET ref == Referenced(m, held, fr)
        sref == SharedReferenced(m, ref)
    IN  [m EXCEPT !.nodes = [a \in NodeIds |->
                               IF m.nodes[a].live \/ a \in ref THEN m.nodes[a] ELSE ZeroNode],
                  !.shared = [s \in SharedIds |->
                               IF m.shared[s].live \/ s \in sref THEN m.shared[s]
                               ELSE ZeroShared]]

\* The running thread is at position `op' of a library call of the thread-safe
\* build; the threads are followed up to the first undefined behaviour
Stepping(op) == ~exited /\ ~fault /\ ~ub /\ pc.op = op

\* The running thread can make a call of the thread-safe build
Calling == Stepping("idle") /\ Len(log) <= MaxLog

Running == ~exited /\ ~fault /\ after < MaxAfter /\ pc.op = "idle" /\ Len(log) <= MaxLog

\* The nodes reached from node u over the prev links, u first.
RECURSIVE ChainFrom(_, _, _)
ChainFrom(mem, u, fuel) ==
    IF u = NULL \/ fuel = 0 THEN <<>>
    ELSE <<u>> \o ChainFrom(mem, mem[u].prev, fuel - 1)

MainChain == ChainFrom(nodes, _acu_stack_ptr, MaxCells + 1)

TailChain(s) == ChainFrom(nodes, shared[s].tail, MaxCells + 1)

Range(q) == {q[i] : i \in 1..Len(q)}

\* The members of a set of numbers, largest first.
RECURSIVE Descending(_)
Descending(S) ==
    IF S = {} THEN <<>>
    ELSE LET x == CHOOSE y \in S : \A z \in S : z <= y
         IN  <<x>> \o Descending(S \ {x})

\* The resource a unique node owns directly, or NULL
ResOf(mem, u) == IF mem[u].del = DelFree THEN mem[u].ptr ELSE NULL

RECURSIVE Distinct(_, _)
Distinct(q, seen) ==
    IF q = <<>> THEN <<>>
    ELSE IF Head(q) \in seen THEN Distinct(Tail(q), seen)
    ELSE <<Head(q)>> \o Distinct(Tail(q), seen \cup {Head(q)})

RECURSIVE Ascending(_)
Ascending(S) ==
    IF S = {} THEN <<>>
    ELSE LET x == CHOOSE y \in S : \A z \in S : y <= z
         IN  <<x>> \o Ascending(S \ {x})

Reverse(q) == [i \in 1..Len(q) |-> q[Len(q) + 1 - i]]

RECURSIVE Chains(_, _)
Chains(m, s) ==
    IF s > MaxShared THEN <<>>
    ELSE Reverse(ChainFrom(m.nodes, m.shared[s].tail, MaxCells + 1)) \o Chains(m, s + 1)

\* The main stacks of the threads th, th + 1, ..., each bottom first
RECURSIVE Stacks(_, _)
Stacks(m, th) ==
    IF th > MaxThreads THEN <<>>
    ELSE Reverse(ChainFrom(m.nodes, IF th = tid THEN m.sp ELSE parked[th].sp, MaxCells + 1))
           \o Stacks(m, th + 1)

\* The cells of the arenas of the threads th, th + 1, ..., in the order of q
RECURSIVE ByArena(_, _)
ByArena(q, th) ==
    IF th > MaxThreads THEN <<>>
    ELSE SelectSeq(q, LAMBDA a : a \in Arena(th)) \o ByArena(q, th + 1)

\* Addresses carry no meaning of their own: the cells of each arena are renumbered
\* in the order main stacks (bottom first), private stacks, the other cells.
Layout(m) == ByArena(Distinct(Stacks(m, 1) \o Chains(m, 1) \o Ascending(NodeIds), {}), 1)

Moved(lay, p) == IF p \in NodeIds THEN CHOOSE i \in NodeIds : lay[i] = p ELSE p

Renumber(m, lay) ==
    [m EXCEPT !.nodes = [i \in NodeIds |->
                           [m.nodes[lay[i]] EXCEPT !.prev = Moved(lay, @),
                                                   !.next = Moved(lay, @)]],
              !.shared = [s \in SharedIds |-> [m.shared[s] EXCEPT !.tail = Moved(lay, @)]],
              !.sp = Moved(lay, @),
              !.latest = Moved(lay, @)]

MovedPc(lay, p) ==
    [p EXCEPT !.u = Moved(lay, @), !.fn = Moved(lay, @), !.lockptr = Moved(lay, @),
              !.b = Moved(lay, @)]

MovedThread(lay, c) ==
    [c EXCEPT !.sp = Moved(lay, @), !.latest = Moved(lay, @),
              !.handles = {Moved(lay, a) : a \in @},
              !.frames = [i \in 1..Len(@) |-> [@[i] EXCEPT !.marker = Moved(lay, @)]],
              !.pc = MovedPc(lay, @)]

\* The innermost open TRY block, or 0
TryDepth(fr) ==
    LET T == {i \in 1..Len(fr) : fr[i].kind = "try"}
    IN  IF T = {} THEN 0 ELSE CHOOSE i \in T : \A j \in T : j <= i

\* The open brackets after a throw has jumped to the CATCH block of bracket t
Unwound(fr, t) ==
    [i \in 1..t |-> IF i = t THEN [fr[i] EXCEPT !.kind = "catch", !.unwound = Len(fr) - t]
                     ELSE fr[i]]

\* Resources of the brackets above depth d pass to the bracket at depth d.
Inherit(ow, d) == [r \in Resources |-> IF HeldFrom(ow, r, d + 1) THEN HeldAt(d) ELSE ow[r]]

\* The resources the bracket at depth d (and above) is to release, latest first.
Due(ow, d) == Descending({r \in Resources : HeldFrom(ow, r, d)})

Settle(ow, d) == [r \in Resources |-> IF HeldFrom(ow, r, d) THEN Released ELSE ow[r]]

\* The shared cells free() was called on during the operation that ends in state m,
\* each with its counts at that moment and whether a live unique node refers to it.
FreedShared(m) ==
    {[refcnt |-> m.shared[s].refcnt, weakcnt |-> m.shared[s].weakcnt,
      pointed |-> \E a \in NodeIds : /\ m.nodes[a].live /\ m.nodes[a].ptr = s
                                      /\ m.nodes[a].del \in {DelStrong, DelWeak}] :
        s \in {x \in SharedIds : shared[x].live /\ ~m.shared[x].live}}

\* An operation ends with machine state m: either it returned, or it threw and the
\* throw jumps to the innermost CATCH, or ends the process when there is none.
FinishAt(m, new, fr, ow, l, p) ==
    \E m0 \in {m} :
    \E m1 \in {IF m0.thrown /\ TryDepth(fr) = 0 THEN acu_exit(m0) ELSE m0} :
    \E t \in {TryDepth(fr)}, held \in {(handles \ m1.freed) \cup new} :
    \E lk \in {CASE l.op = "lock" -> locked \cup ({l.u} \ {NULL})
                 [] l.op = "release_locked" -> locked \ {l.u}
                 [] OTHER -> locked} :
    \E fr2 \in {IF m0.thrown THEN Unwound(fr, t) ELSE fr} :
    \E m3 \in {Forget(m1, held \cup lk \cup ParkedPtrs \cup PcPtrs(p), fr2)} :
    \E lay \in {Layout(m3)} :
    \E m2 \in {Renumber(m3, lay)} :
        /\ nodes' = m2.nodes
        /\ shared' = m2.shared
        /\ _acu_stack_ptr' = m2.sp
        /\ _acu_latest' = m2.latest
        /\ _acu_scope' = m2.scope
        /\ log' = m2.log
        /\ ub' = m2.ub
        /\ fault' = m2.fault
        /\ after' = IF ub THEN after + 1 ELSE 0
        /\ handles' = {Moved(lay, a) : a \in held}
        /\ locked' = {Moved(lay, a) : a \in lk}
        /\ frames' = [i \in 1..Len(fr2) |-> [fr2[i] EXCEPT !.marker = Moved(lay, @)]]
        /\ owner' = IF ~m0.thrown THEN ow ELSE IF t = 0 THEN Settle(ow, 0) ELSE Inherit(ow, t)
        /\ exited' = ((m0.thrown /\ t = 0) \/ l.op = "exit")
        /\ last' = [l EXCEPT !.thrown = m0.thrown, !.u = Moved(lay, @), !.made = <<>>,
                             !.freed = FreedShared(m1), !.fresh = Moved(lay, @)]
        /\ made' = [s \in SharedIds |->
                       IF ~m2.shared[s].live THEN NoRefs
                       ELSE [l.made[s] EXCEPT !.zero = @ \/ m2.shared[s].refcnt = 0]]
        /\ tid' = tid
        /\ parked' = [th \in Threads |-> MovedThread(lay, parked[th])]
        /\ pc' = MovedPc(lay, p)

\* A library call made outside any other ends
Finish(m, new, fr, ow, l) == FinishAt(m, new, fr, ow, l, Idle)

Op(name, u) ==
    [op |-> name, u |-> u, n |-> Len(log), expect |-> <<>>, kept |-> <<>>, kind |-> "",
     unwound |-> 0, thrown |-> FALSE, made |-> made, arg |-> NULL, freed |-> {},
     arg2 |-> NULL, fresh |-> last.fresh]

\* An operation of which nothing is recorded
Quiet == [Op("other", NULL) EXCEPT !.n = 0]

Init ==
    /\ nodes = [a \in NodeIds |-> ZeroNode]
    /\ shared = [s \in SharedIds |-> ZeroShared]
    /\ _acu_stack_ptr = NULL
    /\ _acu_latest = NULL
    /\ _acu_scope = 0
    /\ frames = <<>>
    /\ handles = {}
    /\ locked = {}
    /\ nextRes = 1
    /\ log = <<>>
    /\ ub = FALSE
    /\ fault = FALSE
    /\ after = 0
    /\ exited = FALSE
    /\ owner = [r \in Resources |-> Unregistered]
    /\ yielded = {}
    /\ bypassed = {}
    /\ made = [s \in SharedIds |-> NoRefs]
    /\ last = [op |-> "init", u |-> NULL, n |-> 0, expect |-> <<>>, kept |-> <<>>,
               kind |-> "", unwound |-> 0, thrown |-> FALSE, made |-> <<>>, arg |-> NULL,
               freed |-> {}, arg2 |-> NULL, fresh |-> NULL]
    /\ tid = 1
    /\ parked = [t \in Threads |-> ZeroThread]
    /\ pc = Idle

\* The resources held by the nodes of a chain, in the order of the chain
RECURSIVE ResSeq(_, _)
ResSeq(mem, q) ==
    IF q = <<>> THEN <<>>
    ELSE (IF ResOf(mem, Head(q)) \in Resources THEN <<ResOf(mem, Head(q))>> ELSE <<>>)
           \o ResSeq(mem, Tail(q))

\* The members of q that are in S, in the order of q
RECURSIVE Only(_, _)
Only(q, S) ==
    IF q = <<>> THEN <<>>
    ELSE (IF Head(q) \in S THEN <<Head(q)>> ELSE <<>>) \o Only(Tail(q), S)

\* The part of chain q above node `marker'
RECURSIVE Above(_, _)
Above(q, marker) ==
    IF q = <<>> \/ Head(q) = marker THEN <<>> ELSE <<Head(q)>> \o Above(Tail(q), marker)

\* A wrapped constructor: construct a resource and register it with its release function.
Register ==
    /\ Running
    /\ nextRes <= MaxRes
    /\ \E a \in FreeCells :
         Finish(acu_new_unique(Machine, a, nextRes, DelFree), {a}, frames,
                [owner EXCEPT ![nextRes] = HeldAt(Depth)],
                [Quiet EXCEPT !.op = "register", !.u = a, !.fresh = a])
    /\ nextRes' = nextRes + 1
    /\ UNCHANGED <<yielded, bypassed>>

\* BEGIN
Begin ==
    /\ Running
    /\ Depth < MaxDepth
    /\ \E a \in FreeCells :
         LET m == BEGIN(Machine, a)
         IN  Finish(m, {}, Append(frames, [marker |-> a, kind |-> "fn", level |-> m.scope,
                                             unwound |-> 0]),
                    owner, [Quiet EXCEPT !.fresh = NULL])
    /\ UNCHANGED <<nextRes, yielded, bypassed>>

\* BEGIN_SCOPE
BeginScope ==
    /\ Running
    /\ Depth < MaxDepth
    /\ \E a \in FreeCells :
         LET m == BEGIN_SCOPE(Machine, a)
         IN  Finish(m, {}, Append(frames, [marker |-> a, kind |-> "scope", level |-> m.scope,
                                             unwound |-> 0]),
                    owner, Quiet)
    /\ UNCHANGED <<nextRes, yielded, bypassed>>

\* TRY
Try ==
    /\ Running
    /\ Depth < MaxDepth
    /\ \E a \in FreeCells :
         LET m == BEGIN_SCOPE(Machine, a)
         IN  Finish(m, {}, Append(frames, [marker |-> a, kind |-> "try", level |-> m.scope,
                                             unwound |-> 0]),
                    owner, Quiet)
    /\ UNCHANGED <<nextRes, yielded, bypassed>>

\* END, END_SCOPE or TRY_END of the innermost bracket
Leave ==
    /\ Running
    /\ Depth > 0
    /\ Finish(END_SCOPE(Machine, Top.marker, Top.level), {}, SubSeq(frames, 1, Depth - 1),
              Settle(owner, Depth),
              [Op("leave_scope", NULL) EXCEPT
                  !.expect = Due(owner, Depth), !.kind = Top.kind,
                  !.unwound = Top.unwound,
                  !.kept = Only(ResSeq(nodes, Above(MainChain, Top.marker)),
                                {r \in Resources : ~HeldFrom(owner, r, Depth)})])
    /\ UNCHANGED <<nextRes, yielded, bypassed>>

Yield ==
    /\ Running
    /\ \E u \in handles :
         LET r == ResOf(nodes, u)
             moves == r \in Resources /\ HeldFrom(owner, r, Depth) /\ Depth > 0
         IN  /\ Finish(acu_yield(Machine, u), {}, frames,
                       IF moves THEN [owner EXCEPT ![r] = HeldAt(Depth - 1)] ELSE owner,
                       Quiet)
             /\ yielded' = IF moves THEN yielded \cup {r} ELSE yielded
    /\ UNCHANGED <<nextRes, bypassed>>

\* return, break, continue or goto out of the innermost bracket: its closing
\* bracket is not executed
Escape ==
    /\ Running
    /\ Depth > 0
    /\ Top.kind # "try"
    /\ Finish(Machine, {}, SubSeq(frames, 1, Depth - 1), Inherit(owner, Depth - 1),
              Quiet)
    /\ bypassed' = bypassed \cup {r \in Resources : HeldFrom(owner, r, Depth)}
    /\ UNCHANGED <<nextRes, yielded>>

\* throw(e) in the program: longjmp to the innermost CATCH, or the default handler
Throw ==
    /\ Running
    /\ Finish([Machine EXCEPT !.thrown = TRUE], {}, frames, owner, Op("throw", NULL))
    /\ bypassed' = bypassed \cup {r \in Resources : HeldFrom(owner, r, TryDepth(frames) + 1)}
    /\ UNCHANGED <<nextRes, yielded>>

\* exit(), or return from main, with acu_init done: the atexit cleanup runs
AtExit ==
    /\ Running
    /\ Finish(_acu_atexit_cleanup(Machine), {}, <<>>, Settle(owner, 0),
              [Op("exit", NULL) EXCEPT !.expect = Due(owner, 0)])
    /\ UNCHANGED <<nextRes, yielded, bypassed>>

\* acu_latest() by the program: it holds the pointer returned from now on
Latest ==
    /\ Running
    /\ \E res \in {acu_latest(Machine)} :
         Finish(res.m, {res.ret} \ {NULL}, frames, owner,
                [Quiet EXCEPT !.op = "latest", !.u = res.ret, !.arg = res.ret,
                              !.fresh = NULL])
    /\ UNCHANGED <<nextRes, yielded, bypassed>>

\* acu_reserve() by the program: an empty node to receive ownership later
Reserve ==
    /\ Running
    /\ \E a \in FreeCells :
         Finish(acu_reserve(Machine, a), {a}, frames, owner, [Quiet EXCEPT !.fresh = a])
    /\ UNCHANGED <<nextRes, yielded, bypassed>>

\* The resource live entry u holds itself, or NULL
Own(u) == IF nodes[u].live THEN ResOf(nodes, u) ELSE NULL

\* Ownership after the resources in `lost' lost their entry and live entry `to' took
\* over resource r
Rehome(ow, lost, r, to) ==
    [x \in Resources |-> IF x = r /\ nodes[to].live THEN HeldAt(nodes[to].scope)
                         ELSE IF x \in lost THEN Overwritten
                         ELSE ow[x]]

\* acu_destruct(u) by the program
Destruct ==
    /\ Running
    /\ \E u \in handles :
         Finish(acu_destruct(Machine, u), {}, frames,
                [r \in Resources |-> IF r = Own(u) THEN Released ELSE owner[r]],
                [Quiet EXCEPT !.op = "release_now", !.arg = u, !.fresh = NULL])
    /\ UNCHANGED <<nextRes, yielded, bypassed>>

Transfer ==
    /\ Running
    /\ \E from \in handles, to \in handles :
         /\ from # to
         /\ Finish(acu_transfer(Machine, from, to), {}, frames,
                   Rehome(owner, {Own(to)}, Own(from), to),
                   [Quiet EXCEPT !.op = "transfer", !.arg = from, !.arg2 = to,
                                 !.fresh = NULL])
    /\ UNCHANGED <<nextRes, yielded, bypassed>>

Swap ==
    /\ Running
    /\ \E a \in handles, b \in handles :
         /\ a # b
         /\ Finish(acu_swap(Machine, a, b), {}, frames,
                   Rehome(Rehome(owner, {}, Own(a), b), {}, Own(b), a),
                   [Quiet EXCEPT !.op = "swap", !.u = a, !.arg = a, !.arg2 = b])
    /\ UNCHANGED <<nextRes, yielded, bypassed>>

\* The resource an entry holds, directly or through a strong forward link
HeldBy(u) ==
    IF nodes[u].del = DelStrong /\ nodes[u].ptr \in SharedIds
    THEN (IF shared[nodes[u].ptr].del = DelFree THEN shared[nodes[u].ptr].ptr ELSE NULL)
    ELSE ResOf(nodes, u)

\* acu_update(u, realloc(...)) by the program: the resource moved to a new handle
Update ==
    /\ Running
    /\ nextRes <= MaxRes
    /\ \E u \in handles :
         /\ HeldBy(u) \in Resources \/ nodes[u].del = DelWeak
         /\ Finish(acu_update(Machine, u, nextRes), {}, frames,
                   IF HeldBy(u) \in Resources
                   THEN [owner EXCEPT ![nextRes] = owner[HeldBy(u)], ![HeldBy(u)] = Unregistered]
                   ELSE owner,
                   [Quiet EXCEPT !.op = "update", !.arg = u, !.arg2 = nextRes])
    /\ nextRes' = nextRes + 1
    /\ UNCHANGED <<yielded, bypassed>>

FreeSharedCells == {s \in SharedIds : ~shared[s].live}

LiveShared == {s \in SharedIds : shared[s].live}

Share ==
    /\ Running
    /\ \E u \in handles, sa \in FreeSharedCells :
         /\ \A sb \in FreeSharedCells : sa <= sb
         /\ LET r == ResOf(nodes, u)
            IN  Finish(acu_share(Machine, u, sa), {}, frames,
                       IF r \in Resources THEN [owner EXCEPT ![r] = Shared] ELSE owner,
                       [Quiet EXCEPT !.op = "share", !.u = u, !.arg = u, !.made[sa] = NoRefs])
    /\ UNCHANGED <<nextRes, yielded, bypassed>>

\* acu_new_reference(s) on an object that has strong references
NewReference ==
    /\ Running
    /\ \E s \in LiveShared, a \in FreeCells :
         /\ shared[s].refcnt > 0
         /\ made[s].strong < MaxRefs
         /\ Finish(acu_new_reference(Machine, a, s), {a}, frames, owner,
                   [Quiet EXCEPT !.made[s].strong = @ + 1, !.fresh = a])
    /\ UNCHANGED <<nextRes, yielded, bypassed>>

\* acu_new_reference(s) on an object whose strong references are all gone
Resurrect ==
    /\ Running
    /\ \E s \in LiveShared, a \in FreeCells :
         /\ shared[s].refcnt = 0
         /\ made[s].strong < MaxRefs
         /\ Finish(acu_new_reference(Machine, a, s), {a}, frames, owner,
                   [Quiet EXCEPT !.made[s].strong = @ + 1, !.fresh = a])
    /\ UNCHANGED <<nextRes, yielded, bypassed>>

NewWeakReference ==
    /\ Running
    /\ \E s \in LiveShared, a \in FreeCells :
         /\ made[s].weak < MaxRefs
         /\ Finish(acu_new_weak_reference(Machine, a, s), {a}, frames, owner,
                   [Quiet EXCEPT !.made[s].weak = @ + 1, !.fresh = a])
    /\ UNCHANGED <<nextRes, yielded, bypassed>>

LockReference ==
    /\ Running
    /\ Cardinality(locked) < MaxLocked
    /\ \E w \in handles, a1 \in FreeCells :
         \E a2 \in AllocCells(BEGIN(Machine, a1)) :
         \E a3 \in AllocCells(BEGIN_SCOPE(BEGIN(Machine, a1), a2)) :
         \E res \in {acu_lock_reference(Machine, w, a1, a2, a3)} :
            Finish(res.m, {}, frames, owner,
                   [Quiet EXCEPT !.op = "lock", !.u = res.ret, !.arg = w, !.fresh = NULL,
                                 !.kind = IF res.ret = NULL THEN "absent" ELSE "strong"])
    /\ UNCHANGED <<nextRes, yielded, bypassed>>

\* acu_destruct(u) on a pointer acu_lock_reference returned
DestructLocked ==
    /\ Running
    /\ \E u \in locked :
         Finish(acu_destruct(Machine, u), {}, frames, owner,
                [Quiet EXCEPT !.op = "release_locked", !.u = u, !.fresh = NULL])
    /\ UNCHANGED <<nextRes, yielded, bypassed>>

SubmitTo ==
    /\ Running
    /\ \E u \in handles, s \in LiveShared, a1 \in FreeCells :
         \E a2 \in AllocCells(BEGIN(Machine, a1)) :
            Finish(acu_submit_to(Machine, u, s, a1, a2), {}, frames, owner,
                   [Quiet EXCEPT !.op = "submit", !.arg = u, !.kind = s, !.fresh = NULL,
                                 !.made[s].subs = IF Own(u) \in Resources
                                                  THEN Append(@, Own(u)) ELSE @])
    /\ UNCHANGED <<nextRes, yielded, bypassed>>

\* The operation that failed is recorded with the entry it was applied to
NoMemory(name, u) == [Quiet EXCEPT !.op = "nomem", !.kind = name, !.arg = u]

\* A wrapped constructor whose acu_new_unique finds no memory for the node
RegisterFails ==
    /\ Running
    /\ nextRes <= MaxRes
    /\ Finish(calloc_t(Machine), {}, frames, owner, NoMemory("register", NULL))
    /\ UNCHANGED <<nextRes, yielded, bypassed>>

\* acu_share(u) with no memory for the shared node
ShareFails ==
    /\ Running
    /\ FreeSharedCells # {}
    /\ \E u \in handles :
         Finish(ShareNoMemory(Machine, u), {}, frames, owner, NoMemory("share", u))
    /\ UNCHANGED <<nextRes, yielded, bypassed>>

\* acu_new_reference(s) on an object that has strong references, with no memory
\* for the node
NewReferenceFails ==
    /\ Running
    /\ \E s \in LiveShared :
         /\ shared[s].refcnt > 0
         /\ Finish(calloc_t(Machine), {}, frames, owner, NoMemory("new_strong", NULL))
    /\ UNCHANGED <<nextRes, yielded, bypassed>>

\* acu_new_weak_reference(s) with no memory for the node
NewWeakReferenceFails ==
    /\ Running
    /\ LiveShared # {}
    /\ Finish(calloc_t(Machine), {}, frames, owner, NoMemory("new_weak", NULL))
    /\ UNCHANGED <<nextRes, yielded, bypassed>>

\* acu_submit_to(u, s) with no memory for its k-th record
SubmitToFails ==
    /\ Running
    /\ \E u \in handles, s \in LiveShared, a1 \in FreeCells, k \in 1..2 :
         /\ ResOf(nodes, u) \in Resources
         /\ Finish(SubmitNoMemory(Machine, u, s, a1, k), {}, frames, owner,
                   [NoMemory("submit", u) EXCEPT !.arg2 = k])
    /\ UNCHANGED <<nextRes, yielded, bypassed>>

\* acu_lock_reference(w) on a weak reference to an object with strong references,
\* with no memory for its k-th record
LockReferenceFails ==
    /\ Running
    /\ \E w \in handles, a1 \in FreeCells, k \in 1..3 :
         \E a2 \in AllocCells(BEGIN(Machine, a1)) :
            /\ nodes[w].live /\ nodes[w].del = DelWeak
            /\ nodes[w].ptr \in LiveShared /\ shared[nodes[w].ptr].refcnt \in 1..MaxRefs
            /\ Finish(LockNoMemory(Machine, w, a1, a2, k), {}, frames, owner,
                      [NoMemory("lock", w) EXCEPT !.arg2 = k])
    /\ UNCHANGED <<nextRes, yielded, bypassed>>

\* The main thread constructs the first resource
RegisterFirst == nextRes = 1 /\ tid = 1 /\ Register

\* ... and shares it, once
ShareFirst == LiveShared = {} /\ log = <<>> /\ tid = 1 /\ Share

\* A thread that holds no resource of its own constructs one
RegisterOwn ==
    /\ LiveShared # {}
    /\ \A u \in handles : nodes[u].del # DelFree
    /\ Register

\* The scheduler lets another thread run (the threads are started once there is a
\* shared object)
Switch ==
    /\ ~exited /\ ~fault /\ after < MaxAfter
    /\ LiveShared # {}
    /\ \E t \in Threads \ {tid} :
         /\ tid' = t
         /\ parked' = [parked EXCEPT ![tid] = [sp |-> _acu_stack_ptr, latest |-> _acu_latest,
                                                scope |-> _acu_scope, frames |-> frames,
                                                handles |-> handles, pc |-> pc],
                                      ![t] = ZeroThread]
         /\ _acu_stack_ptr' = parked[t].sp
         /\ _acu_latest' = parked[t].latest
         /\ _acu_scope' = parked[t].scope
         /\ frames' = parked[t].frames
         /\ handles' = parked[t].handles
         /\ pc' = parked[t].pc
    /\ last' = [Quiet EXCEPT !.op = "switch"]
    /\ UNCHANGED <<nodes, shared, locked, nextRes, log, ub, fault, after, exited, owner,
                   yielded, bypassed, made>>

\* acu_new_reference(s) in the thread-safe build: the node is created and s marked
TNewReferenceBegin ==
    /\ Calling
    /\ \E s \in LiveShared, a \in FreeCells :
         /\ made[s].strong < MaxRefs
         /\ FinishAt(NewReferenceNode(Machine, a, s), {a}, frames, owner,
                     [Quiet EXCEPT !.made[s].strong = @ + 1],
                     [Idle EXCEPT !.op = "new_reference", !.u = a, !.s = s])
    /\ UNCHANGED <<nextRes, yielded, bypassed>>

\* ... refcnt is incremented
TNewReferenceAdd ==
    /\ Stepping("new_reference")
    /\ \E r \in {NewReferenceAdd(Machine, pc.s)} :
         FinishAt(r.m, {}, frames, owner, Quiet,
                  IF r.old = 0 THEN [pc EXCEPT !.op = "rearm"] ELSE Idle)
    /\ UNCHANGED <<nextRes, yielded, bypassed>>

\* ... and weakcnt, because refcnt was 0
TNewReferenceRearm ==
    /\ Stepping("rearm")
    /\ FinishAt(__sync_fetch_and_add(Machine, pc.s, "weakcnt", 1), {}, frames, owner, Quiet,
                Idle)
    /\ UNCHANGED <<nextRes, yielded, bypassed>>

\* acu_new_weak_reference(s) in the thread-safe build: the node is created and s marked
TNewWeakBegin ==
    /\ Calling
    /\ \E s \in LiveShared, a \in FreeCells :
         /\ made[s].weak < MaxRefs
         /\ FinishAt(NewWeakNode(Machine, a, s), {a}, frames, owner,
                     [Quiet EXCEPT !.made[s].weak = @ + 1],
                     [Idle EXCEPT !.op = "new_weak", !.u = a, !.s = s])
    /\ UNCHANGED <<nextRes, yielded, bypassed>>

\* ... weakcnt is incremented
TNewWeakAdd ==
    /\ Stepping("new_weak")
    /\ FinishAt(__sync_fetch_and_add(Machine, pc.s, "weakcnt", 1), {}, frames, owner, Quiet,
                Idle)
    /\ UNCHANGED <<nextRes, yielded, bypassed>>

\* The forward links to shared nodes the running thread holds
Links == {u \in handles : /\ nodes[u].del \in {DelStrong, DelWeak}
                          /\ nodes[u].ptr \in SharedIds}

\* acu_destruct(u) on a forward link in the thread-safe build: the count of the link's
\* kind is decremented; a weak link, or a strong one that is not the last, is done
TDestructDrop ==
    /\ Calling
    /\ \E u \in Links :
         \E m \in {DestructEnter(Machine, u)}, s \in {nodes[u].ptr} :
            IF nodes[u].del = DelWeak
            THEN FinishAt(UnlinkFree(_acu_del_weak_ref(m, s), u), {}, frames, owner, Quiet, Idle)
            ELSE IF m.shared[s].refcnt = 1
            THEN FinishAt(__sync_fetch_and_add(m, s, "refcnt", -1), {}, frames, owner, Quiet,
                          [Idle EXCEPT !.op = "drain", !.u = u, !.s = s])
            ELSE FinishAt(UnlinkFree(__sync_fetch_and_add(m, s, "refcnt", -1), u), {}, frames,
                          owner, Quiet, Idle)
    /\ UNCHANGED <<nextRes, yielded, bypassed>>

\* ... the last strong link: the private stack is drained and the base released
TDestructDrain ==
    /\ Stepping("drain")
    /\ FinishAt(DrainShared(Machine, pc.s), {}, frames, owner, Quiet,
                [pc EXCEPT !.op = "drop_weak"])
    /\ UNCHANGED <<nextRes, yielded, bypassed>>

\* ... and the weak count held by the strong links is given up
TDestructWeak ==
    /\ Stepping("drop_weak")
    /\ FinishAt(UnlinkFree(_acu_del_weak_ref(Machine, pc.s), pc.u), {}, frames, owner, Quiet,
                Idle)
    /\ UNCHANGED <<nextRes, yielded, bypassed>>

\* acu_lock_reference(w) in the thread-safe build: BEGIN and the increment of refcnt
TLockBegin ==
    /\ Calling
    /\ \E w \in Links, a1 \in FreeCells :
         /\ nodes[w].del = DelWeak
         /\ \E m \in {LockEnter(Machine, w, a1)} :
              FinishAt(m, {}, frames, owner, [Quiet EXCEPT !.op = "lock_begin", !.arg = w],
                       [Idle EXCEPT !.op = "lock", !.u = w, !.s = nodes[w].ptr, !.fn = a1,
                                    !.level = m.scope,
                                    !.old = shared[nodes[w].ptr].refcnt])
    /\ UNCHANGED <<nextRes, yielded, bypassed>>

\* ... the old value was 0: s->refcnt = 0; acu_return NULL
TLockReset ==
    /\ Stepping("lock")
    /\ pc.old = 0
    /\ FinishAt(LockExpired(Machine, pc.s, pc.fn, pc.level), {}, frames, owner,
                [Quiet EXCEPT !.op = "lock", !.kind = "absent"], Idle)
    /\ UNCHANGED <<nextRes, yielded, bypassed>>

\* ... the old value was not 0: the strong node is made and returned
TLockTake ==
    /\ Stepping("lock")
    /\ pc.old # 0
    /\ \E a2 \in FreeCells :
       \E a3 \in AllocCells(BEGIN_SCOPE(Machine, a2)) :
           FinishAt(LockTake(Machine, pc.s, pc.fn, pc.level, a2, a3), {}, frames, owner,
                    [Quiet EXCEPT !.op = "lock", !.kind = "strong"], Idle)
    /\ UNCHANGED <<nextRes, yielded, bypassed>>

\* acu_submit_to(u, s) in the thread-safe build, u a resource of the thread: BEGIN,
\* the test, the mutex
TSubmitBegin ==
    /\ Calling
    /\ \E u \in {x \in handles : nodes[x].del = DelFree}, s \in LiveShared, a1 \in FreeCells :
       \E a2 \in AllocCells(BEGIN(Machine, a1)) :
       \E m \in {SubmitEnter(Machine, u, s, a1, a2)} :
           FinishAt(m, {}, frames, owner, Quiet,
                    IF m.thrown THEN Idle
                    ELSE [Idle EXCEPT !.op = "submit", !.u = u, !.s = s, !.fn = a1,
                                      !.level = m.scope,
                                      !.lockptr = IF shared[s].shared # 0 THEN a2 ELSE NULL])
    /\ UNCHANGED <<nextRes, yielded, bypassed>>

\* ... _acu_new_unique(u->base.ptr, u->base.del, &(s->tail)): the copy is linked
TSubmitLink ==
    /\ Stepping("submit")
    /\ \E a \in FreeCells :
         FinishAt(PushLink(TouchNode(Machine, pc.u), a, nodes[pc.u].ptr, nodes[pc.u].del,
                           TailRef(pc.s)),
                  {}, frames, owner, Quiet, [pc EXCEPT !.op = "push", !.b = a])
    /\ UNCHANGED <<nextRes, yielded, bypassed>>

\* ... and made the top of the private stack
TSubmitTop ==
    /\ Stepping("push")
    /\ FinishAt(PushTop(Machine, pc.b, TailRef(pc.s)), {}, frames, owner, Quiet,
                [pc EXCEPT !.op = "pushed", !.b = NULL])
    /\ UNCHANGED <<nextRes, yielded, bypassed>>

\* The value read from lockptr: what acu_pthread_mutex_lock returned, or anything
\* when the variable was never assigned
LockPtrRead == IF pc.lockptr # NULL THEN {pc.lockptr} ELSE NodeIds \cup {NULL}

\* ... the mutex is released, u is taken out of the main stack, END
TSubmitEnd ==
    /\ Stepping("pushed")
    /\ \E lockptr \in (IF shared[pc.s].shared # 0 THEN LockPtrRead ELSE {NULL}) :
         FinishAt(END_SCOPE(SubmitUnlink(SubmitUnlock(Machine, pc.s, lockptr), pc.u),
                            pc.fn, pc.level),
                  {}, frames, owner, [Quiet EXCEPT !.op = "submit", !.kind = pc.s], Idle)
    /\ UNCHANGED <<nextRes, yielded, bypassed>>

NextNested == Register \/ BeginScope \/ Leave \/ Yield

SpecNested == Init /\ [][NextNested]_vars

NextExit == Register \/ Begin \/ BeginScope \/ Leave \/ Yield \/ AtExit

SpecExit == Init /\ [][NextExit]_vars

NextEscape == Register \/ Begin \/ Leave \/ Escape \/ AtExit

SpecEscape == Init /\ [][NextEscape]_vars

NextTry == Register \/ Begin \/ Try \/ Leave \/ Throw

SpecTry == Init /\ [][NextTry]_vars

NextShare == Register \/ Destruct \/ Share \/ NewReference \/ NewWeakReference

SpecShare == Init /\ [][NextShare]_vars

NextUpdate == Register \/ Share \/ NewReference \/ NewWeakReference \/ Update

SpecUpdate == Init /\ [][NextUpdate]_vars

\* The first weak reference to a Shared Object
NewWeakFirst == (\A s \in SharedIds : made[s].weak = 0) /\ NewWeakReference

\* The program constructs two resources
RegisterTwo == nextRes <= 2 /\ Register

\* The program starts by sharing its first resource and taking a weak link to it
ShareAtStart == Depth = 0 /\ Cardinality(handles) = 1 /\ ShareFirst

NewWeakAtStart == Depth = 0 /\ Cardinality(handles) = 1 /\ NewWeakFirst

\* The program reserves an empty entry when it holds none
ReserveOne == (\A h \in handles : nodes[h].del # DelNone) /\ Reserve

NextTransfer ==
    RegisterTwo \/ ReserveOne \/ Begin \/ Leave \/ Transfer \/ ShareAtStart \/ NewWeakAtStart

SpecTransfer == Init /\ [][NextTransfer]_vars

NextSwap ==
    RegisterTwo \/ ReserveOne \/ Begin \/ Leave \/ Swap \/ ShareAtStart \/ NewWeakAtStart

SpecSwap == Init /\ [][NextSwap]_vars

\* A block scope opened before anything else
BlockFirst == handles = {} /\ nextRes = 1 /\ BeginScope

\* Early release by a program that holds pointers to entries of resources only
DestructOwned == (\A h \in handles : nodes[h].del = DelFree) /\ Destruct

NextLatest == RegisterTwo \/ Begin \/ BlockFirst \/ Leave \/ DestructOwned \/ Latest

SpecLatest == Init /\ [][NextLatest]_vars

NextLinks == Register \/ BeginScope \/ Leave \/ Yield \/ Destruct \/ Transfer

SpecLinks == Init /\ [][NextLinks]_vars

NextNoMemory ==
    RegisterTwo \/ Try \/ Leave \/ ShareFirst \/ NewWeakFirst \/ RegisterFails \/ ShareFails
       \/ NewReferenceFails \/ NewWeakReferenceFails \/ SubmitToFails \/ LockReferenceFails

SpecNoMemory == Init /\ [][NextNoMemory]_vars

NextSubmit == Register \/ Begin \/ Leave \/ Share \/ SubmitTo

SpecSubmit == Init /\ [][NextSubmit]_vars

NextLock == Register \/ Share \/ NewWeakReference \/ LockReference \/ Destruct
              \/ DestructLocked

SpecLock == Init /\ [][NextLock]_vars

NextRevive == Register \/ Share \/ NewReference \/ NewWeakReference \/ Destruct
                \/ Resurrect

SpecRevive == Init /\ [][NextRevive]_vars

NextCapability == Register \/ Share \/ NewWeakReference \/ SubmitTo

SpecCapability == Init /\ [][NextCapability]_vars

\* Threads taking and dropping references to one shared object
NextCounts == RegisterFirst \/ ShareFirst \/ Switch \/ TNewReferenceBegin
                \/ TNewReferenceAdd
                \/ TNewReferenceRearm \/ TNewWeakBegin \/ TNewWeakAdd \/ TDestructDrop
                \/ TDestructDrain \/ TDestructWeak

SpecCounts == Init /\ [][NextCounts]_vars

\* Threads locking weak references to one shared object while others take and drop
\* strong references
NextPromote == RegisterFirst \/ ShareFirst \/ Switch \/ TNewReferenceBegin
                 \/ TNewReferenceAdd \/ TNewReferenceRearm \/ TNewWeakBegin \/ TNewWeakAdd
                 \/ TDestructDrop \/ TDestructDrain \/ TDestructWeak
                 \/ TLockBegin \/ TLockReset \/ TLockTake

SpecPromote == Init /\ [][NextPromote]_vars

\* Threads submitting entries to one shared object that has been referenced
NextMutex == RegisterFirst \/ ShareFirst \/ RegisterOwn \/ Switch \/ TNewWeakBegin
               \/ TNewWeakAdd
               \/ TSubmitBegin \/ TSubmitLink \/ TSubmitTop \/ TSubmitEnd

SpecMutex == Init /\ [][NextMutex]_vars

\* One thread submits entries to a shared object, another drops the last reference
NextOwners == RegisterFirst \/ ShareFirst \/ RegisterOwn \/ Begin \/ Switch \/ SubmitTo
                \/ Destruct

SpecOwners == Init /\ [][NextOwners]_vars

Next == Register \/ Reserve \/ Begin \/ Leave \/ Destruct \/ Transfer \/ Swap \/ Share
          \/ NewReference \/ Resurrect \/ NewWeakReference \/ LockReference \/ SubmitTo
          \/ Update \/ Latest

Spec == Init /\ [][Next]_vars

\* ------------------------------------------------------------------------
\* Properties
\* ------------------------------------------------------------------------
Count(q, x) == Cardinality({i \in 1..Len(q) : q[i] = x})

\* What the last operation appended to the release log
Suffix == SubSeq(log, last.n + 1, Len(log))

\* The position of the node holding resource r in the main stack (1 = top), or 0
Position(r) ==
    LET P == {i \in 1..Len(MainChain) :
                 nodes[MainChain[i]].live /\ ResOf(nodes, MainChain[i]) = r}
    IN  IF P = {} THEN 0 ELSE CHOOSE i \in P : TRUE

Registered(r) == Position(r) # 0

\* The position of the innermost open bracket's marker in the main stack
MarkerPosition ==
    IF Depth = 0 THEN Len(MainChain) + 1
    ELSE LET P == {i \in 1..Len(MainChain) : MainChain[i] = Top.marker}
         IN  IF P = {} THEN 0 ELSE CHOOSE i \in P : TRUE

C3_YieldedReleasedByEnclosing ==
    \A r \in yielded :
        /\ Held(owner, r) => Count(log, r) = 0 /\ Registered(r)
        /\ owner[r] = Released => Count(log, r) = 1

C7_ExitReleasesAll ==
    exited =>
        /\ _acu_stack_ptr = NULL
        /\ \A r \in Resources : owner[r] # Unregistered => Count(log, r) >= 1

\* The live unique nodes that are in the main stack, and those in the private stack
\* of shared object s
InMain(a) == a \in Range(MainChain)

InTail(s, a) == shared[s].live /\ a \in Range(TailChain(s))

\* C4: every live unique node is in exactly one stack, and following the prev links
\* from the top of a stack visits only live nodes of that stack.
C4_OneStack ==
    /\ \A a \in NodeIds :
          nodes[a].live =>
              Cardinality({s \in SharedIds : InTail(s, a)}) + BoolInt(InMain(a)) = 1
    /\ \A a \in Range(MainChain) : nodes[a].live
    /\ \A s \in SharedIds : \A a \in NodeIds : InTail(s, a) => nodes[a].live

\* Shared object s has a strong reference: a live unique node, or another shared
\* object with strong references, whose base is a strong link to s
HasStrong(s) ==
    \/ \E a \in NodeIds : nodes[a].live /\ nodes[a].del = DelStrong /\ nodes[a].ptr = s
    \/ \E x \in SharedIds : /\ shared[x].live /\ shared[x].refcnt > 0
                               /\ shared[x].del = DelStrong /\ shared[x].ptr = s

\* C8: the release function of a shared resource has not run while a strong
\* reference to the shared object exists, and has run exactly once when none does.
C8_ReleasedAtLastStrongDrop ==
    \A r \in Resources :
        owner[r] = Shared =>
            IF \E s \in SharedIds : /\ shared[s].live /\ shared[s].del = DelFree
                                      /\ shared[s].ptr = r /\ HasStrong(s)
            THEN Count(log, r) = 0
            ELSE Count(log, r) = 1

C8_Witness ==
    \E s \in SharedIds :
        /\ shared[s].live /\ shared[s].del = DelFree /\ shared[s].refcnt = 0
        /\ made[s].strong >= 1 /\ made[s].weak >= 1
        /\ Count(log, shared[s].ptr) = 1

\* C9: once the strong count of a shared object has been zero it stays zero, and the
\* base release function does not run a second time.
C9_ForwardOnly ==
    \A s \in SharedIds :
        (shared[s].live /\ made[s].zero) =>
            /\ shared[s].refcnt = 0
            /\ shared[s].del = DelFree => Count(log, shared[s].ptr) <= 1

\* C10: a Shared Object whose strong count is positive has a weak count of at least
\* one (and so has not been freed).
C10_WeakCoversStrong ==
    \A s \in SharedIds : shared[s].refcnt > 0 => shared[s].live /\ shared[s].weakcnt >= 1

\* The base records (release function and handle) of the nodes of a chain, in order
Bases(mem, q) == [i \in 1..Len(q) |-> <<mem[q[i]].del, mem[q[i]].ptr>>]

\* Chain q without node u
Without(q, u) == Only(q, Range(q) \ {u})

\* The entry the last operation was applied to was a live one before it
OnLiveEntry == ~ub /\ last'.arg \in NodeIds /\ nodes[last'.arg].live

\* The shared cell that entry referred to
Target == nodes[last'.arg].ptr

\* C11: a Shared Object record is freed only when both counts are zero, and no live
\* unique node refers to it at that moment.
C11_FreedOnlyAtZero ==
    \A x \in last.freed : x.refcnt = 0 /\ x.weakcnt = 0 /\ ~x.pointed

C13_LockedEntryRegistered ==
    [][(/\ last'.op = "lock" /\ OnLiveEntry /\ nodes[last'.arg].del = DelWeak
        /\ shared[Target].live /\ shared[Target].refcnt > 0)
       => /\ last'.u \in NodeIds
          /\ nodes'[last'.u].live
          /\ nodes'[last'.u].del = DelStrong /\ nodes'[last'.u].ptr = Target
          /\ last'.u \in Range(MainChain')
          /\ shared'[Target].refcnt = shared[Target].refcnt + 1]_vars

\* C18: submit(entry, shared) runs no release function, takes exactly that entry out
\* of the main stack, and adds to the private stack of shared one entry with the
\* same handle and release function.
C18_SubmitRelocates ==
    [][(/\ last'.op = "submit" /\ OnLiveEntry /\ last'.arg \in Range(MainChain)
        /\ BitAnd(nodes[last'.arg].properties, _ACU_SUBMITTABLE) # 0
        /\ shared[last'.kind].live)
       => /\ ~last'.thrown
          /\ log' = log
          /\ Bases(nodes', MainChain') = Bases(nodes, Without(MainChain, last'.arg))
          /\ Bases(nodes', ChainFrom(nodes', shared'[last'.kind].tail, MaxCells + 1))
                = <<<<nodes[last'.arg].del, nodes[last'.arg].ptr>>>>
                    \o Bases(nodes, TailChain(last'.kind))]_vars

\* The capability the last operation needs of its entry
Needed == IF last'.op = "share" THEN _ACU_SHAREABLE ELSE _ACU_SUBMITTABLE

\* C19: share or submit on an entry that lacks the capability fails with a condition
\* reported to the caller, and no Shared Object is created.
C19_IncapableRejected ==
    [][(/\ last'.op \in {"share", "submit"} /\ OnLiveEntry
        /\ BitAnd(nodes[last'.arg].properties, Needed) = 0)
       => /\ last'.thrown
          /\ \A s \in SharedIds : shared'[s].live => shared[s].live]_vars

\* The Shared Object the last share created from the entry's former base record
SharedFromEntry(s) ==
    /\ ~shared[s].live /\ shared'[s].live
    /\ shared'[s].ptr = nodes[last'.arg].ptr /\ shared'[s].del = nodes[last'.arg].del
    /\ shared'[s].refcnt = 1 /\ shared'[s].weakcnt = 1
    /\ nodes'[last'.u].live
    /\ nodes'[last'.u].ptr = s /\ nodes'[last'.u].del = DelStrong

ShareOfShareable ==
    /\ last'.op = "share" /\ OnLiveEntry
    /\ BitAnd(nodes[last'.arg].properties, _ACU_SHAREABLE) # 0

\* C20: share(entry) on a shareable entry runs no release function, creates a Shared
\* Object with the entry's former base and both counts 1, and leaves the entry a
\* strong forward link without the shareable and submittable capabilities.
C20_ShareClearsCapabilities ==
    [][ShareOfShareable
       => /\ ~last'.thrown /\ log' = log
          /\ \E s \in SharedIds : SharedFromEntry(s)
          /\ BitAnd(nodes'[last'.u].properties, _ACU_SHAREABLE + _ACU_SUBMITTABLE) = 0]_vars

\* C20 as amended: ... and leaves the entry a strong forward link with the
\* capabilities it had.
C20_ShareKeepsCapabilities ==
    [][ShareOfShareable
       => /\ ~last'.thrown /\ log' = log
          /\ \E s \in SharedIds : SharedFromEntry(s)
          /\ nodes'[last'.u].properties = nodes[last'.arg].properties]_vars

C20_Witness ==
    /\ last.op = "share" /\ ~ub /\ ~last.thrown
    /\ nodes[last.u].live /\ nodes[last.u].del = DelStrong
    /\ shared[nodes[last.u].ptr].del = DelFree /\ shared[nodes[last.u].ptr].refcnt = 1

\* No thread is inside a library call
AllIdle == pc.op = "idle" /\ \A th \in Threads : parked[th].pc.op = "idle"

\* The live forward links to shared object s whose destructor is del
LinksTo(s, del) ==
    {a \in NodeIds : nodes[a].live /\ nodes[a].del = del /\ nodes[a].ptr = s}

\* The number of live forward links of kind del to shared object s: the entries, and
\* the bases of shared objects made from such an entry
Holders(s, del) ==
    Cardinality(LinksTo(s, del))
      + Cardinality({x \in SharedIds : /\ shared[x].live /\ shared[x].del = del
                                        /\ shared[x].ptr = s})

\* C14: when the calls of new_strong, new_weak and the releases of all threads on a
\* shared object that stayed alive have returned, the strong count is the number of
\* strong links created and not released, and the weak count that of the weak links
\* created and not released plus the one the strong links hold together.
C14_NoLostUpdates ==
    \A s \in SharedIds :
        (AllIdle /\ ~ub /\ shared[s].live /\ ~made[s].zero) =>
            /\ shared[s].refcnt = Holders(s, DelStrong)
            /\ shared[s].weakcnt = Holders(s, DelWeak) + 1

C14_Witness ==
    /\ AllIdle /\ ~ub /\ tid = 2
    /\ \E s \in SharedIds : /\ shared[s].live /\ ~made[s].zero
                             /\ made[s].strong = MaxRefs /\ made[s].weak = MaxRefs
                             /\ shared[s].refcnt = 2 /\ shared[s].weakcnt = 2
                             /\ handles \cap LinksTo(s, DelStrong) # {}
                             /\ parked[1].handles \cap LinksTo(s, DelWeak) # {}

\* C15: when every call of lock, new_strong and release has returned, the strong
\* count is the number of live strong forward links: no store of lock has erased
\* the increment of another thread.
C15_StrongCountIsLinks ==
    \A s \in SharedIds :
        (AllIdle /\ ~ub /\ shared[s].live) =>
            shared[s].refcnt = Holders(s, DelStrong)

\* A thread is between the two halves of the push of acu_submit_to, having seen
\* the object marked as shared
InPush(p, s) == p.op = "push" /\ p.s = s /\ p.lockptr # NULL

\* C16: two threads submitting to a shared object that has been referenced are never
\* both inside the push onto its private stack.
C16_PushesExclusive ==
    \A s \in SharedIds : \A th \in Threads \ {tid} : ~(InPush(pc, s) /\ InPush(parked[th].pc, s))

\* What the main stack with top sp holds: per node whether it is allocated, and
\* its base record
StackView(mem, sp) ==
    [i \in 1..Len(ChainFrom(mem, sp, MaxCells + 1)) |->
        <<mem[ChainFrom(mem, sp, MaxCells + 1)[i]].live,
          mem[ChainFrom(mem, sp, MaxCells + 1)[i]].del,
          mem[ChainFrom(mem, sp, MaxCells + 1)[i]].ptr>>]

\* C17: an operation of the running thread leaves the entries of the main stacks of
\* the other threads as they are.
C17_OwnStackOnly ==
    [][tid' = tid =>
          \A th \in Threads \ {tid} :
              StackView(nodes', parked'[th].sp) = StackView(nodes, parked[th].sp)]_vars

\* ------------------------------------------------------------------------
\* Update, transfer, swap, explicit release, latest
\* ------------------------------------------------------------------------
\* The last operation was update on a live entry whose release function is one of D
UpdateOf(D) == last'.op = "update" /\ OnLiveEntry /\ nodes[last'.arg].del \in D

\* ... and the entry is a forward link to a live Shared Object
UpdateOfLink(D) == UpdateOf(D) /\ Target \in SharedIds /\ shared[Target].live

\* What acu_update made of the machine in the last operation, before any handler ran
Updated == acu_update(Machine, last'.arg, last'.arg2)

\* C21 as stated: update on a strong or weak forward link of a Shared Object fails and
\* leaves the Shared Object's resource handle unchanged.
C21_UpdateOfLinkFails ==
    [][UpdateOfLink({DelStrong, DelWeak})
       => /\ last'.thrown
          /\ Updated.shared[Target].ptr = shared[Target].ptr]_vars

\* C21 amended: update on a weak forward link fails and leaves the Shared Object's handle
\* unchanged; update on a strong forward link succeeds and replaces the handle of the
\* Shared Object (and nothing else: counts, the entry and the release log stay).
C21_UpdateFollowsStrongLink ==
    [][/\ UpdateOfLink({DelWeak})
          => last'.thrown /\ Updated.shared[Target].ptr = shared[Target].ptr
       /\ UpdateOfLink({DelStrong})
          => /\ ~last'.thrown
             /\ shared' = [shared EXCEPT ![Target].ptr = last'.arg2]
             /\ Updated.nodes = nodes
             /\ log' = log]_vars

C21_Witness ==
    /\ last.op = "update" /\ ~last.thrown /\ ~ub
    /\ \E s \in SharedIds : /\ shared[s].live /\ shared[s].ptr = last.arg2
                            /\ shared[s].refcnt >= 1
                            /\ \E a \in handles : nodes[a].del = DelStrong /\ nodes[a].ptr = s

\* C22: update on a weak forward link fails with an exception and changes neither the
\* entry nor the Shared Object; on an owned entry it replaces only the resource handle:
\* release function, links, scope and flags stay, and nothing is released.
C22_UpdateReplacesHandleOnly ==
    [][/\ UpdateOf({DelWeak})
          => last'.thrown /\ Updated = [Machine EXCEPT !.thrown = TRUE]
       /\ UpdateOf({DelFree, DelNone})
          => /\ ~last'.thrown
             /\ Updated = [Machine EXCEPT !.nodes[last'.arg].ptr = last'.arg2]
             /\ Bases(nodes', MainChain')
                  = [i \in 1..Len(MainChain) |->
                       IF MainChain[i] = last'.arg
                       THEN <<nodes[last'.arg].del, last'.arg2>>
                       ELSE Bases(nodes, MainChain)[i]]
             /\ shared' = shared
             /\ log' = log]_vars

C22_Witness ==
    /\ last.op = "update" /\ ~last.thrown /\ ~ub
    /\ \E a \in handles : /\ nodes[a].live /\ nodes[a].del = DelFree
                          /\ nodes[a].ptr = last.arg2 /\ InMain(a)

\* What the entries of a chain hold: release function, handle, flags and scope level
Entries(mem, q) ==
    [i \in 1..Len(q) |-> <<mem[q[i]].del, mem[q[i]].ptr, mem[q[i]].properties,
                           mem[q[i]].scope>>]

\* The last operation had two different live entries of the main stack as arguments
OnTwoEntries(name) ==
    /\ last'.op = name /\ OnLiveEntry /\ InMain(last'.arg)
    /\ last'.arg2 \in NodeIds /\ nodes[last'.arg2].live /\ InMain(last'.arg2)
    /\ last'.arg2 # last'.arg

\* The main stack after transfer(from, to) as the claim has it
Transferred(from, to) ==
    LET q == Without(MainChain, from)
    IN  [i \in 1..Len(q) |->
           IF q[i] = to
           THEN <<nodes[from].del, nodes[from].ptr, nodes[from].properties, nodes[to].scope>>
           ELSE Entries(nodes, q)[i]]

Holding(a, b) ==
    [nodes[a] EXCEPT !.ptr = nodes[b].ptr, !.del = nodes[b].del,
                     !.properties = nodes[b].properties]

\* C24: swap(a, b) exchanges the resource, release function and flags of a and b and
\* nothing else (stack positions, links and scope levels of all entries stay, nothing
\* is released); a second swap(a, b) restores the original state.
C24_SwapExchanges ==
    [][OnTwoEntries("swap")
       => /\ ~last'.thrown /\ ~ub' /\ log' = log /\ shared' = shared
          /\ acu_swap(Machine, last'.arg, last'.arg2)
               = [Machine EXCEPT !.nodes[last'.arg] = Holding(last'.arg, last'.arg2),
                                 !.nodes[last'.arg2] = Holding(last'.arg2, last'.arg)]
          /\ Entries(nodes', MainChain')
               = [i \in 1..Len(MainChain) |->
                    LET x == MainChain[i]
                        y == IF x = last'.arg THEN last'.arg2
                             ELSE IF x = last'.arg2 THEN last'.arg ELSE x
                    IN  <<nodes[y].del, nodes[y].ptr, nodes[y].properties, nodes[x].scope>>]
          /\ acu_swap(acu_swap(Machine, last'.arg, last'.arg2), last'.arg, last'.arg2)
               = Machine]_vars

\* Two entries with different flags and scope levels were swapped
C24_Witness ==
    /\ last.op = "swap" /\ ~last.thrown /\ ~ub
    /\ nodes[last.u].live
    /\ \E h \in handles : /\ nodes[h].live
                          /\ nodes[h].properties # nodes[last.u].properties
                          /\ nodes[h].scope # nodes[last.u].scope
                          /\ nodes[last.u].del = DelFree
                          /\ nodes[h].del = DelWeak

\* C25: take_latest returns the entry register created last since the last consuming
\* call (take_latest, release_now, submit, function entry) and clears the latest
\* register; when nothing was registered since, it fails and returns no entry.
\* (last.fresh is that entry, or NULL.)
C25_LatestIsLastRegistered ==
    [][(last'.op = "latest" /\ ~ub)
       => IF last.fresh = NULL
          THEN last'.thrown /\ last'.arg = NULL
          ELSE /\ ~last'.thrown
               /\ last'.arg = last.fresh /\ nodes[last.fresh].live
               /\ _acu_latest' = NULL]_vars

\* C29: the latest register is null or equal to stack_top, and never refers to an
\* entry that has been released.
C29_LatestIsTopOrNull ==
    ~ub => \/ _acu_latest = NULL
           \/ _acu_latest = _acu_stack_ptr /\ nodes[_acu_latest].live

\* The last operation was release_now on a live entry of the main stack
ReleaseNow == last'.op = "release_now" /\ OnLiveEntry /\ InMain(last'.arg)

\* C26: release_now(entry) on an entry anywhere in the main stack invokes that entry's
\* release function exactly once and removes exactly that entry: every other entry
\* stays registered, unreleased and in the same order, and stack_top changes only
\* when the entry was the top.
C26_ReleaseNowExactlyOne ==
    [][ReleaseNow
       => /\ ~last'.thrown
          /\ Entries(nodes', MainChain') = Entries(nodes, Without(MainChain, last'.arg))
          /\ acu_destruct(Machine, last'.arg).sp
               = IF last'.arg = _acu_stack_ptr THEN nodes[last'.arg].prev ELSE _acu_stack_ptr
          /\ nodes[last'.arg].del = DelFree => log' = Append(log, nodes[last'.arg].ptr)
          /\ nodes[last'.arg].del = DelNone => log' = log
          /\ (nodes[last'.arg].del = DelStrong /\ Target \in SharedIds
              /\ shared[Target].live /\ shared[Target].refcnt > 1)
             => /\ log' = log
                /\ shared' = [shared EXCEPT ![Target].refcnt = @ - 1]
          /\ (nodes[last'.arg].del = DelWeak /\ Target \in SharedIds
              /\ shared[Target].live /\ shared[Target].weakcnt > 1)
             => /\ log' = log
                /\ shared' = [shared EXCEPT ![Target].weakcnt = @ - 1]]_vars

\* The middle one of three entries was released
C26_Witness ==
    /\ last.op = "release_now" /\ ~last.thrown /\ ~ub
    /\ log = <<2>>
    /\ ResSeq(nodes, MainChain) = <<3, 1>>
    /\ Len(MainChain) = 2

\* C27: the links of the main stack are consistent: stack_top has no next, p.next = e
\* for every entry e with a prev p, n.prev = e for every entry e with a next n, and
\* following prev from stack_top visits every registered entry exactly once.
C27_LinksConsistent ==
    ~ub =>
      /\ _acu_stack_ptr # NULL => nodes[_acu_stack_ptr].next = NULL
      /\ \A e \in Range(MainChain) :
            /\ nodes[e].live
            /\ nodes[e].prev # NULL => nodes[nodes[e].prev].next = e
            /\ nodes[e].next # NULL => nodes[nodes[e].next].prev = e
      /\ \A i, j \in 1..Len(MainChain) : MainChain[i] = MainChain[j] => i = j
      /\ \A e \in NodeIds : nodes[e].live => InMain(e)

\* A scope was left whose drain skipped a yielded entry lying between two entries it
\* destroyed: the yielded entry was registered second of three.
C27_Witness ==
    /\ last.op = "leave_scope" /\ ~ub
    /\ Suffix = <<3, 1>>
    /\ 2 \in yielded
    /\ ResSeq(nodes, MainChain) = <<2>>

\* The last operation released the last strong forward link of Shared Object s
LastStrongDrop(s) ==
    /\ ~ub /\ shared[s].live /\ shared[s].refcnt = 1
    /\ ~shared'[s].live \/ shared'[s].refcnt = 0

\* Sequence q occurs in the part of the release log the last operation appended
AppendedRun(q) ==
    \E i \in Len(log) + 1..Len(log') :
        i + Len(q) - 1 <= Len(log') /\ SubSeq(log', i, i + Len(q) - 1) = q

\* C28: when the last strong forward link of a Shared Object is released, the entries
\* submitted to its private stack are released exactly once each in reverse submission
\* order, then the base release is invoked on the resource, then weak_count is
\* decremented; the private stack is empty afterwards.
\* (made[s].subs are the resources submitted to s, in submission order.)
C28_PrivateThenBaseThenWeak ==
    [][\A s \in SharedIds :
          (LastStrongDrop(s) /\ shared[s].del = DelFree)
          => /\ ~ub'
             /\ AppendedRun(Reverse(made[s].subs) \o <<shared[s].ptr>>)
             /\ \A i \in 1..Len(made[s].subs) : Count(log', made[s].subs[i]) = 1
             /\ \/ ~shared'[s].live
                \/ /\ shared'[s].weakcnt = shared[s].weakcnt - 1
                   /\ shared'[s].tail = NULL]_vars

\* Everything has been drained: no entry and no Shared Object is left
FullyDrained ==
    /\ ~ub
    /\ \A a \in NodeIds : ~nodes[a].live
    /\ \A s \in SharedIds : ~shared[s].live

\* C30: the resource an entry held when transfer made it the target is still released
\* exactly once by the time everything has been drained.
C30_OverwrittenStillReleased ==
    FullyDrained => \A r \in Resources : owner[r] = Overwritten => Count(log, r) = 1

\* ------------------------------------------------------------------------
\* Allocation failure
\* ------------------------------------------------------------------------
\* The counts and the private stack of every Shared Object
SharedView(mem, sh) ==
    [s \in SharedIds |->
        IF sh[s].live
        THEN <<sh[s].refcnt, sh[s].weakcnt, Entries(mem, ChainFrom(mem, sh[s].tail, MaxCells + 1))>>
        ELSE <<>>]

\* The last operation found no memory and its caller, inside a TRY, caught the condition
CaughtNoMemory == last'.op = "nomem" /\ last'.thrown /\ ~ub' /\ ~exited'

\* The entries the operation left on top of the main stack
LeftOnTop == SubSeq(MainChain', 1, Len(MainChain') - Len(MainChain))

\* C31: when register, new_strong, new_weak, share, submit or lock finds no memory for
\* a bookkeeping record, the caller catches a condition and finds the state as it was
\* before the call: the main stack holds the entries it held (the markers the call
\* pushed for its own scopes, empty entries on top that the caller's next boundary
\* drains, are not counted), and every Shared Object has the private stack, the
\* strong_count and the weak_count it had.
C31_NoMemoryLeavesStateUnchanged ==
    [][CaughtNoMemory =>
          /\ Len(MainChain') >= Len(MainChain)
          /\ Entries(nodes', SubSeq(MainChain', Len(LeftOnTop) + 1, Len(MainChain')))
                = Entries(nodes, MainChain)
          /\ \A i \in 1..Len(LeftOnTop) : nodes'[LeftOnTop[i]].del = DelNone
          /\ SharedView(nodes', shared') = SharedView(nodes, shared)]_vars

====
